---- MODULE Spec2Model ----
(***************************************************************************)
(* A model of utils.py: the Hankel embedding (hankel), dynamic mode        *)
(* decomposition (dmd), and the truncated-SVD helpers (pinv,               *)
(* solve_regression).                                                      *)
(*                                                                         *)
(* Tensors are row-major: a record [shape, data] where data is the flat    *)
(* sequence of the entries, as tf.reshape sees them.  Real numbers are     *)
(* exact rationals <<num, den>>, complex numbers pairs <<re, im>> of       *)
(* rationals, and NaN stands for any non-finite float (NaN or Inf).        *)
(* tf.linalg.svd, tf.linalg.eig and tf.linalg.inv are library calls: the   *)
(* model draws their results from bounded sets that satisfy the library's  *)
(* contract (shapes, descending non-negative singular values, orthonormal  *)
(* singular vectors).                                                      *)
(***************************************************************************)
EXTENDS Integers, Sequences, FiniteSets, TLC

(* ------------------------------ bounds -------------------------------- *)
MaxBatch == 2
MaxLen == 3
MaxM == 2
MaxDim == 2

(* --------------------------- exact numbers ---------------------------- *)
Abs(a) == IF a < 0 THEN -a ELSE a

RECURSIVE Gcd(_, _)
Gcd(a, b) == IF b = 0 THEN a ELSE Gcd(b, a % b)

Lcm(a, b) == (a \div Gcd(a, b)) * b

\* the rational n/d in lowest terms, d > 0; an integer is its own lowest terms
Q(n, d) ==
  IF d = 1 THEN <<n, 1>>
  ELSE LET g == Gcd(Abs(n), Abs(d))
           sg == IF d < 0 THEN -1 ELSE 1
       IN  <<sg * (n \div g), sg * (d \div g)>>

QInt(k) == <<k, 1>>
QAdd(a, b) ==
  IF a[2] = b[2] THEN Q(a[1] + b[1], a[2])
  ELSE LET l == Lcm(a[2], b[2])
       IN  Q(a[1] * (l \div a[2]) + b[1] * (l \div b[2]), l)
QNeg(a) == <<-a[1], a[2]>>
QSub(a, b) == QAdd(a, QNeg(b))
QMul(a, b) ==
  IF a[1] = 0 \/ b[1] = 0 THEN <<0, 1>>
  ELSE IF a[2] = 1 /\ b[2] = 1 THEN <<a[1] * b[1], 1>>
  ELSE LET g1 == Gcd(Abs(a[1]), b[2])
           g2 == Gcd(Abs(b[1]), a[2])
       IN  Q((a[1] \div g1) * (b[1] \div g2), (a[2] \div g2) * (b[2] \div g1))
QInv(a) == Q(a[2], a[1])
\* a > b, by cross-multiplication over the common denominator
QGreater(a, b) ==
  LET l == Lcm(a[2], b[2])
  IN  a[1] * (l \div a[2]) > b[1] * (l \div b[2])

\* a non-finite float, written 0/0 so that it compares with the numbers
NaN == <<<<0, 0>>, <<0, 0>>>>
IsNaN(z) == z = NaN

CInt(a, b) == <<QInt(a), QInt(b)>>
CZero == CInt(0, 0)
COne == CInt(1, 0)
CI == CInt(0, 1)
\* tf.cast(real, complex dtype)
CReal(q) == <<q, QInt(0)>>
CAdd(a, b) ==
  IF IsNaN(a) \/ IsNaN(b) THEN NaN
  ELSE <<QAdd(a[1], b[1]), QAdd(a[2], b[2])>>
CMul(a, b) ==
  IF IsNaN(a) \/ IsNaN(b) THEN NaN
  ELSE <<QSub(QMul(a[1], b[1]), QMul(a[2], b[2])),
         QAdd(QMul(a[1], b[2]), QMul(a[2], b[1]))>>
CConj(a) == IF IsNaN(a) THEN NaN ELSE <<a[1], QNeg(a[2])>>
\* float division: a zero divisor gives a non-finite value, never an error
CDiv(a, b) ==
  IF IsNaN(a) \/ IsNaN(b) THEN NaN
  ELSE LET m2 == QAdd(QMul(b[1], b[1]), QMul(b[2], b[2]))
       IN  IF m2[1] = 0 THEN NaN
           ELSE LET num == CMul(a, CConj(b))
                IN  <<QMul(num[1], QInv(m2)), QMul(num[2], QInv(m2))>>

\* principal square roots the model can represent exactly
SqrtRange == 0 .. 3
Roots ==
  {CInt(a, b) : a \in SqrtRange, b \in {-3, -2, -1, 0, 1, 2, 3}}
    \ {CInt(0, b) : b \in {-3, -2, -1}}
CSqrt(w) ==
  IF IsNaN(w) THEN NaN ELSE CHOOSE z \in Roots : CMul(z, z) = w

(* ------------------------------ tensors ------------------------------- *)
RECURSIVE Prod(_)
Prod(shape) ==
  IF shape = <<>> THEN 1 ELSE Head(shape) * Prod(Tail(shape))

\* row-major offset of a 0-based multi-index
RECURSIVE Ravel(_, _)
Ravel(shape, idx) ==
  IF shape = <<>> THEN 0
  ELSE Head(idx) * Prod(Tail(shape)) + Ravel(Tail(shape), Tail(idx))

\* the 0-based multi-index at a row-major offset
RECURSIVE Unravel(_, _)
Unravel(shape, off) ==
  IF shape = <<>> THEN <<>>
  ELSE LET inner == Prod(Tail(shape))
       IN  <<off \div inner>> \o Unravel(Tail(shape), off % inner)

At(a, idx) == a.data[Ravel(a.shape, idx) + 1]

\* the shape is evaluated once, then every entry from its index
Build(shape, f(_)) ==
  CHOOSE a \in {[shape |-> sh,
                 data |-> [q \in 1 .. Prod(sh) |-> f(Unravel(sh, q - 1))]] :
                sh \in {shape}} : TRUE

Empty == [shape |-> <<0>>, data |-> <<>>]

\* Python's a[lo:hi] on an axis of length n: negative bounds count from the
\* end, and both are clamped to the axis
Clamp(k, n) ==
  LET j == IF k < 0 THEN k + n ELSE k
  IN  IF j < 0 THEN 0 ELSE IF j > n THEN n ELSE j
SliceStart(lo, n) == Clamp(lo, n)
SliceLen(lo, hi, n) ==
  IF Clamp(hi, n) > Clamp(lo, n) THEN Clamp(hi, n) - Clamp(lo, n) ELSE 0

\* the input tensors: entry tags that tell every position apart (seed 0),
\* or repeat with period seed + 1
Seeds == {0, 1}
TensorOf(shape, seed) ==
  Build(shape, LAMBDA idx : IF seed = 0 THEN Ravel(shape, idx)
                            ELSE Ravel(shape, idx) % (seed + 1))

(* ------------------------------- state -------------------------------- *)
VARIABLES
  op,            \* the function called: "hankel", "dmd", "pinv", "solve_regression"
  pc,            \* position in the call
  outcome,       \* "running", "ok" (a result was returned) or "error" (raised)
  numeric,       \* TRUE once tf.linalg.svd has been called
  T, K, i, t,    \* hankel's argument, depth, loop counter and loop tensor
  trajectories, eps,
  X_resh, Y_resh,
  s, u, v, ind,  \* singular values, singular vectors and retained rank
  lmbd,          \* the truncated singular values
  eig_vals, right, left, norm,
  lifted,        \* right and left as lifted, before they are normalized
  X, Y,          \* the arguments of pinv and solve_regression
  result         \* what pinv and solve_regression return

vars == <<op, pc, outcome, numeric, T, K, i, t, trajectories, eps, X_resh,
          Y_resh, s, u, v, ind, lmbd, eig_vals, right, left, norm, lifted,
          X, Y, result>>

hankelVars == <<T, K, i, t>>
dmdVars == <<trajectories, eps, X_resh, Y_resh, lmbd, eig_vals, right, left,
             norm, lifted>>
svdVars == <<s, u, v, ind>>

\* L = T.shape[1]
L == T.shape[2]

(* ------------------------------- hankel -------------------------------- *)
\* T[:, tf.newaxis, lo:hi]
Window(lo, hi) ==
  Build(<<T.shape[1], 1, SliceLen(lo, hi, L), T.shape[3]>>,
        LAMBDA idx : At(T, <<idx[1], SliceStart(lo, L) + idx[3], idx[4]>>))

\* a slip of line 42: the new window put in front of t
Concat1Prepend(a, b) ==
  Build(<<a.shape[1], a.shape[2] + b.shape[2], a.shape[3], a.shape[4]>>,
        LAMBDA idx : IF idx[2] < b.shape[2] THEN At(b, idx)
                     ELSE At(a, <<idx[1], idx[2] - b.shape[2], idx[3], idx[4]>>))

\* tf.concat([a, b], axis=1) of two rank-4 tensors
Concat1(a, b) ==
  CHOOSE c \in
    {Build(<<x.shape[1], x.shape[2] + y.shape[2], x.shape[3], x.shape[4]>>,
           LAMBDA idx : IF idx[2] < x.shape[2] THEN At(x, idx)
                        ELSE At(y, <<idx[1], idx[2] - x.shape[2], idx[3], idx[4]>>)) :
     x \in {a}, y \in {b}} : TRUE

\* tf.TensorShape([T.shape[0], None, K, T.shape[-1]]): a dimension is never
\* negative, and the loop tensor has to fit the invariant
InvariantOk(a) ==
  /\ K >= 0
  /\ a.shape[1] = T.shape[1]
  /\ a.shape[3] = K
  /\ a.shape[4] = T.shape[3]

\* a slip of line 41: the last window left out
condStrict == i < L - K

\* cond = lambda i, t: i <= L-K
cond == i <= L - K

\* lines 38-40 and the entry into tf.while_loop
hankel_enter ==
  /\ pc = "hankel_enter"
  /\ i' = 1
  /\ IF InvariantOk(Window(0, K))
       THEN /\ t' = Window(0, K)
            /\ pc' = "hankel_loop"
            /\ outcome' = outcome
       ELSE /\ t' = t
            /\ pc' = "done"
            /\ outcome' = "error"
  /\ UNCHANGED <<op, numeric, T, K, dmdVars, svdVars, X, Y, result>>

\* body = lambda i, t: [i+1, tf.concat([t, T[:, tf.newaxis, i:K+i]], axis=1)]
hankel_body ==
  /\ pc = "hankel_loop"
  /\ cond
  /\ i' = i + 1
  /\ t' = Concat1(t, Window(i, K + i))
  /\ UNCHANGED <<op, pc, outcome, numeric, T, K, dmdVars, svdVars, X, Y, result>>

\* the loop ends and hankel returns t to its caller
hankel_return ==
  /\ pc = "hankel_loop"
  /\ ~cond
  /\ IF op = "hankel"
       THEN pc' = "done" /\ outcome' = "ok"
       ELSE pc' = "dmd_design" /\ outcome' = outcome
  /\ UNCHANGED <<op, numeric, hankelVars, dmdVars, svdVars, X, Y, result>>

(* ----------------------- truncated SVD (shared) ----------------------- *)
\* a slip of lines 90 and 147: a value equal to the tolerance retained
RECURSIVE RankGe(_, _)
RankGe(sv, tol) ==
  IF sv = <<>> THEN 0
  ELSE (IF ~QGreater(tol, Head(sv)) THEN 1 ELSE 0) + RankGe(Tail(sv), tol)

\* tf.reduce_sum(tf.cast(sv > tol, tf.int32)): how many singular values
\* exceed the tolerance
RECURSIVE Rank(_, _)
Rank(sv, tol) ==
  IF sv = <<>> THEN 0
  ELSE (IF QGreater(Head(sv), tol) THEN 1 ELSE 0) + Rank(Tail(sv), tol)

\* a slip of lines 92 and 150: the last values kept, a[-ind:]
TakeLast(sv, k) ==
  SubSeq(sv, Len(sv) - SliceLen(0, k, Len(sv)) + 1, Len(sv))

\* a[:ind] on a vector
Take(sv, k) == SubSeq(sv, 1, SliceLen(0, k, Len(sv)))

\* a[:, :ind] on a matrix
TakeCols(a, k) ==
  IF a.data = <<>>
    THEN [shape |-> <<a.shape[1], SliceLen(0, k, a.shape[2])>>, data |-> <<>>]
    ELSE Build(<<a.shape[1], SliceLen(0, k, a.shape[2])>>,
               LAMBDA idx : At(a, idx))

\* a matrix whose entries the model does not follow, only its shape
Opaque(shape) == [shape |-> shape, data |-> <<>>]

Min(a, b) == IF a < b THEN a ELSE b

\* the singular values tf.linalg.svd may return for a matrix with p of
\* them: non-negative and in descending order
RECURSIVE Descending(_, _)
Descending(vals, p) ==
  IF p = 0 THEN {<<>>}
  ELSE UNION {{<<x>> \o r : r \in {q \in Descending(vals, p - 1) :
                                      q = <<>> \/ ~QGreater(Head(q), x)}} :
              x \in vals}

(* -------------------------------- dmd --------------------------------- *)
bs == trajectories.shape[1]
n == trajectories.shape[2]
m == trajectories.shape[3]

\* tf.reshape(a, shape): the same entries in row-major order
ReshapeOk(a, shape) ==
  /\ \A d \in 1 .. Len(shape) : shape[d] >= 0
  /\ Prod(shape) = Len(a.data)
Reshape(a, shape) == [shape |-> shape, data |-> a.data]

\* tf.transpose(a, (2, 0, 1))
Transpose201(a) ==
  Build(<<a.shape[3], a.shape[1], a.shape[2]>>,
        LAMBDA idx : At(a, <<idx[2], idx[3], idx[1]>>))

\* a[..., lo:hi] on a rank-3 tensor
SliceLast(a, lo, hi) ==
  Build(<<a.shape[1], a.shape[2], SliceLen(lo, hi, a.shape[3])>>,
        LAMBDA idx : At(a, <<idx[1], idx[2],
                             SliceStart(lo, a.shape[3]) + idx[3]>>))

\* lines 73-78: flatten the density matrices and call hankel
dmd_enter ==
  /\ pc = "dmd_enter"
  /\ T' = Reshape(trajectories, <<bs, n, m * m>>)
  /\ pc' = "hankel_enter"
  /\ UNCHANGED <<op, outcome, numeric, K, i, t, dmdVars, svdVars, X, Y, result>>

\* lines 80-81: one column per window, the feature axis leading
Embedded(h) == Transpose201(Reshape(h, <<bs, n - K + 1, K * (m * m)>>))

\* lines 82 and 85: X = t[..., :-1], reshaped to a matrix
DesignX(h) ==
  Reshape(SliceLast(Embedded(h), 0, -1), <<K * (m * m), bs * (n - K)>>)

\* a slip of line 83: Y cut like X, not one step later
DesignYUnshifted(h) ==
  Reshape(SliceLast(Embedded(h), 0, -1), <<K * (m * m), bs * (n - K)>>)

\* lines 83 and 86: Y = t[..., 1:], reshaped to a matrix
DesignY(h) ==
  Reshape(SliceLast(Embedded(h), 1, Embedded(h).shape[3]),
          <<K * (m * m), bs * (n - K)>>)

\* the reshapes of lines 80, 85 and 86 keep the number of entries
DesignOk(h) ==
  /\ ReshapeOk(h, <<bs, n - K + 1, K * (m * m)>>)
  /\ ReshapeOk(SliceLast(Embedded(h), 0, -1),
               <<K * (m * m), bs * (n - K)>>)

dmd_design ==
  /\ pc = "dmd_design"
  /\ IF DesignOk(t)
       THEN /\ X_resh' = DesignX(t)
            /\ Y_resh' = DesignY(t)
            /\ pc' = "dmd_svd"
            /\ outcome' = outcome
       ELSE /\ UNCHANGED <<X_resh, Y_resh>>
            /\ pc' = "done"
            /\ outcome' = "error"
  /\ UNCHANGED <<op, numeric, hankelVars, trajectories, eps, lmbd, eig_vals,
                 right, left, norm, lifted, svdVars, X, Y, result>>

\* line 88: lmbd, u, v = tf.linalg.svd(X_resh)
DmdSVals == {QInt(0), QInt(1), QInt(2)}
dmd_svd ==
  /\ pc = "dmd_svd"
  /\ numeric' = TRUE
  /\ LET p == Min(X_resh.shape[1], X_resh.shape[2])
     IN  /\ s' \in Descending(DmdSVals, p)
         /\ u' = Opaque(<<X_resh.shape[1], p>>)
         /\ v' = Opaque(<<X_resh.shape[2], p>>)
  /\ pc' = "dmd_truncate"
  /\ UNCHANGED <<op, outcome, hankelVars, dmdVars, ind, X, Y, result>>

\* lines 90-96: keep the singular values above eps
dmd_truncate ==
  /\ pc = "dmd_truncate"
  /\ ind' = Rank(s, eps)
  /\ lmbd' = Take(s, Rank(s, eps))
  /\ u' = TakeCols(u, Rank(s, eps))
  /\ v' = TakeCols(v, Rank(s, eps))
  /\ pc' = "dmd_eig"
  /\ UNCHANGED <<op, outcome, numeric, hankelVars, trajectories, eps, X_resh,
                 Y_resh, eig_vals, right, left, norm, lifted, s, X, Y, result>>

\* lines 98-100: the reduced operator T_tilda = adjoint(u) @ Y_resh @
\* (v * lmbd_inv), its eigendecomposition, and left = adjoint(inv(right)).
\* The eigenvalues are drawn from EigSeq; tf.linalg.inv raises when the
\* eigenvector matrix is singular, which a defective T_tilda (two modes or
\* more) can make it.
EigSeq == <<CInt(1, 0), CInt(0, 2), CZero, CInt(-1, 0), CInt(0, -2)>>
EigChoices(r) ==
  IF r = 0 THEN {<<>>}
  ELSE {[j \in 1 .. r |-> EigSeq[((off + j) % Len(EigSeq)) + 1]] :
          off \in 0 .. Len(EigSeq) - 1}

\* the shapes of a @ b and of tf.linalg.adjoint(a)
MatMulOk(a, b) == a[2] = b[1]
MatMulShape(a, b) == <<a[1], b[2]>>
AdjointShape(a) == <<a[2], a[1]>>

T_tildaShape ==
  MatMulShape(MatMulShape(AdjointShape(u.shape), Y_resh.shape), v.shape)
\* the products are defined, v * lmbd_inv broadcasts, and eig gets a square
T_tildaOk ==
  /\ MatMulOk(AdjointShape(u.shape), Y_resh.shape)
  /\ MatMulOk(Y_resh.shape, v.shape)
  /\ v.shape[2] = Len(lmbd)
  /\ T_tildaShape[1] = T_tildaShape[2]

dmd_eig ==
  /\ pc = "dmd_eig"
  /\ \/ /\ T_tildaOk
        /\ eig_vals' \in EigChoices(T_tildaShape[1])
        /\ right' = Opaque(T_tildaShape)
        /\ left' = Opaque(AdjointShape(T_tildaShape))
        /\ pc' = "dmd_lift"
        /\ outcome' = outcome
     \/ /\ ~T_tildaOk \/ ind >= 2
        /\ UNCHANGED <<eig_vals, right, left>>
        /\ pc' = "done"
        /\ outcome' = "error"
  /\ UNCHANGED <<op, numeric, hankelVars, trajectories, eps, X_resh, Y_resh,
                 lmbd, norm, lifted, svdVars, X, Y, result>>

\* lines 102-103: right = Y_resh @ (v * lmbd_inv) @ right, left = u @ left.
\* Their entries are products of the library's factors; the model draws
\* them from matrices of the computed shape that satisfy what the factors'
\* contracts imply, sum_f conj(left[f, j]) * right[f, j] = eig_vals[j].
Phase(k) == IF k % 2 = 0 THEN COne ELSE CI
LiftedLeft(shape, a) ==
  Build(shape, LAMBDA idx : Phase(idx[1] + idx[2] + a))
LiftedRight(shape, a, kind) ==
  Build(shape,
        LAMBDA idx :
          IF kind = "spread"
            THEN CDiv(CMul(eig_vals[idx[2] + 1], Phase(idx[1] + idx[2] + a)),
                      CInt(shape[1], 0))
          ELSE IF idx[1] = idx[2] % shape[1]
            THEN CDiv(eig_vals[idx[2] + 1],
                      CConj(Phase(idx[1] + idx[2] + a)))
          ELSE CZero)

dmd_lift ==
  /\ pc = "dmd_lift"
  /\ \E a \in {0, 1}, kind \in {"spread", "single"} :
       /\ right' = LiftedRight(
                     MatMulShape(MatMulShape(Y_resh.shape, v.shape),
                                 right.shape), a, kind)
       /\ left' = LiftedLeft(MatMulShape(u.shape, left.shape), a)
       /\ lifted' = <<right', left'>>
  /\ pc' = "dmd_normalize"
  /\ UNCHANGED <<op, outcome, numeric, hankelVars, trajectories, eps, X_resh,
                 Y_resh, lmbd, eig_vals, norm, svdVars, X, Y, result>>

\* lines 104-106: norm = sqrt(reduce_sum(adjoint(left) * transpose(right)))
RECURSIVE ColDot(_, _, _, _)
ColDot(l, r, j, f) ==
  IF f = 0 THEN CZero
  ELSE CAdd(ColDot(l, r, j, f - 1),
            CMul(CConj(At(l, <<f - 1, j>>)), At(r, <<f - 1, j>>)))
Norm(l, r) == [j \in 1 .. l.shape[2] |-> CSqrt(ColDot(l, r, j - 1, l.shape[1]))]

\* a / w, w broadcast along the last axis
DivCols(a, w) == Build(a.shape, LAMBDA idx : CDiv(At(a, idx), w[idx[2] + 1]))

\* a slip of line 108: left divided by norm, not by its conjugate
NoConj(w) == w

\* tf.math.conj on a vector
ConjAll(w) == [j \in 1 .. Len(w) |-> CConj(w[j])]

\* lines 104-109
dmd_normalize ==
  /\ pc = "dmd_normalize"
  /\ norm' = Norm(left, right)
  /\ right' = DivCols(right, norm')
  /\ left' = DivCols(left, ConjAll(norm'))
  /\ pc' = "done"
  /\ outcome' = "ok"
  /\ UNCHANGED <<op, numeric, hankelVars, trajectories, eps, X_resh, Y_resh,
                 lmbd, eig_vals, lifted, svdVars, X, Y, result>>

(* ----------------------- pinv, solve_regression ------------------------ *)
\* v * w, w broadcast along the last axis
ScaleCols(a, w) == Build(a.shape, LAMBDA idx : CMul(At(a, idx), w[idx[2] + 1]))

\* tf.linalg.adjoint
Adjoint(a) ==
  Build(<<a.shape[2], a.shape[1]>>, LAMBDA idx : CConj(At(a, <<idx[2], idx[1]>>)))

RECURSIVE Dot(_, _, _, _, _)
Dot(a, b, row, col, k) ==
  IF k = 0 THEN CZero
  ELSE CAdd(Dot(a, b, row, col, k - 1),
            CMul(At(a, <<row, k - 1>>), At(b, <<k - 1, col>>)))

\* a @ b
MatMul(a, b) ==
  CHOOSE c \in
    {Build(<<x.shape[1], y.shape[2]>>,
           LAMBDA idx : Dot(x, y, idx[1], idx[2], x.shape[2])) :
     x \in {a}, y \in {b}} : TRUE

\* 1 / s, cast to the dtype of the matrix
Reciprocals(sv) ==
  [k \in 1 .. Len(sv) |-> IF sv[k][1] = 0 THEN NaN ELSE CReal(QInv(sv[k]))]
Cast(sv) == [k \in 1 .. Len(sv) |-> CReal(sv[k])]

\* what tf.linalg.svd returns for a rows x cols matrix: p = min(rows, cols)
\* descending singular values, and u (rows x p), v (cols x p) with
\* orthonormal columns
SVals == {QInt(0), <<1, 200000000>>, <<1, 100000000>>, QInt(1), QInt(2)}
Isometries(rows, p, phases) ==
  {Build(<<rows, p>>,
         LAMBDA idx : IF idx[1] = (idx[2] + off) % rows
                        THEN (IF idx[2] = 0 THEN ph ELSE COne)
                        ELSE CZero) :
     off \in 0 .. rows - 1, ph \in phases}
SvdResults(rows, cols) ==
  LET p == Min(rows, cols)
  IN  Descending(SVals, p) \X Isometries(rows, p, {COne, CI})
        \X Isometries(cols, p, {COne})

\* line 146
pinv_svd ==
  /\ pc = "pinv_svd"
  /\ numeric' = TRUE
  /\ \E f \in SvdResults(X.shape[1], X.shape[2]) :
       s' = f[1] /\ u' = f[2] /\ v' = f[3]
  /\ pc' = "pinv_return"
  /\ UNCHANGED <<op, outcome, hankelVars, dmdVars, ind, X, Y, result>>

\* a slip of line 153: the factors in the order of the docstring's shape
pinvSwapped(sv, uu, vv, tol) ==
  MatMul(ScaleCols(TakeCols(uu, Rank(sv, tol)),
                   Reciprocals(Take(sv, Rank(sv, tol)))),
         Adjoint(TakeCols(vv, Rank(sv, tol))))

\* lines 147-153
pinv(sv, uu, vv, tol) ==
  MatMul(ScaleCols(TakeCols(vv, Rank(sv, tol)),
                   Reciprocals(Take(sv, Rank(sv, tol)))),
         Adjoint(TakeCols(uu, Rank(sv, tol))))

\* s keeps the singular values as returned; lmbd holds s[:ind]
pinv_return ==
  /\ pc = "pinv_return"
  /\ ind' = Rank(s, eps)
  /\ u' = TakeCols(u, Rank(s, eps))
  /\ v' = TakeCols(v, Rank(s, eps))
  /\ lmbd' = Take(s, Rank(s, eps))
  /\ result' = pinv(s, u, v, eps)
  /\ pc' = "done"
  /\ outcome' = "ok"
  /\ UNCHANGED <<op, numeric, hankelVars, trajectories, eps, X_resh, Y_resh,
                 eig_vals, right, left, norm, lifted, s, X, Y>>

\* s > 1e-8
RegTol == <<1, 100000000>>

\* tf.reshape(a, (a.shape[0], -1))
ReshapeRows(a) ==
  [shape |-> <<a.shape[1], Prod(Tail(a.shape))>>, data |-> a.data]

\* lines 125-128
solve_regression_svd ==
  /\ pc = "solve_regression_svd"
  /\ X_resh' = ReshapeRows(X)
  /\ Y_resh' = ReshapeRows(Y)
  /\ numeric' = TRUE
  /\ \E f \in SvdResults(X.shape[1], Prod(Tail(X.shape))) :
       s' = f[1] /\ u' = f[2] /\ v' = f[3]
  /\ pc' = "solve_regression_return"
  /\ UNCHANGED <<op, outcome, hankelVars, trajectories, eps, lmbd, eig_vals,
                 right, left, norm, lifted, ind, X, Y, result>>

\* line 131: s_inv = tf.concat([1 / s[:ind], s[ind:]], axis=0)
s_inv(sv, k) == Reciprocals(Take(sv, k)) \o Cast(SubSeq(sv, k + 1, Len(sv)))

\* lines 129-134
solve_regression(sv, uu, vv, y) ==
  MatMul(y, MatMul(ScaleCols(vv, s_inv(sv, Rank(sv, RegTol))), Adjoint(uu)))

solve_regression_return ==
  /\ pc = "solve_regression_return"
  /\ ind' = Rank(s, RegTol)
  /\ result' = solve_regression(s, u, v, Y_resh)
  /\ pc' = "done"
  /\ outcome' = "ok"
  /\ UNCHANGED <<op, numeric, hankelVars, dmdVars, s, u, v, X, Y>>

(* -------------------------------- calls -------------------------------- *)
Depths == -1 .. MaxLen + 1
EpsDefault == <<1, 100000>>
EpsSet == {EpsDefault, QInt(1), QInt(2)}

\* the entries of Y: small complex integers
YOf(shape, seed) ==
  Build(shape, LAMBDA idx : CInt(1 + ((Ravel(shape, idx) + seed) % 2),
                                 Ravel(shape, idx) % 2))

InitHankel ==
  /\ op = "hankel"
  /\ pc = "hankel_enter"
  /\ \E b \in 1 .. MaxBatch, len \in 1 .. MaxLen, feat \in 1 .. MaxM * MaxM,
        seed \in Seeds :
       T = TensorOf(<<b, len, feat>>, seed)
  /\ K \in Depths
  /\ trajectories = Empty /\ eps = QInt(0)
  /\ X = Empty /\ Y = Empty

InitDmd ==
  /\ op = "dmd"
  /\ pc = "dmd_enter"
  /\ \E b \in 1 .. MaxBatch, len \in 1 .. MaxLen, mm \in 1 .. MaxM :
       trajectories = TensorOf(<<b, len, mm, mm>>, 0)
  /\ K \in Depths
  /\ eps \in EpsSet
  /\ T = Empty
  /\ X = Empty /\ Y = Empty

InitPinv ==
  /\ op = "pinv"
  /\ pc = "pinv_svd"
  /\ \E a \in 1 .. MaxDim, b \in 1 .. MaxDim : X = Opaque(<<a, b>>)
  /\ eps \in EpsSet
  /\ Y = Empty /\ T = Empty /\ K = 0 /\ trajectories = Empty

InitRegression ==
  /\ op = "solve_regression"
  /\ pc = "solve_regression_svd"
  /\ \E a \in 1 .. MaxDim, b \in 1 .. MaxDim, c \in 1 .. 2, seed \in Seeds :
       /\ X = Opaque(<<a, b, c>>)
       /\ Y = YOf(<<a, b, c>>, seed)
  /\ eps = QInt(0) /\ T = Empty /\ K = 0 /\ trajectories = Empty

Init ==
  /\ outcome = "running"
  /\ numeric = FALSE
  /\ i = 0 /\ t = Empty
  /\ X_resh = Empty /\ Y_resh = Empty
  /\ s = <<>> /\ u = Empty /\ v = Empty /\ ind = 0
  /\ lmbd = <<>> /\ eig_vals = <<>> /\ right = Empty /\ left = Empty
  /\ norm = <<>> /\ lifted = <<Empty, Empty>>
  /\ result = Empty
  /\ (InitHankel \/ InitDmd \/ InitPinv \/ InitRegression)

Next ==
  \/ hankel_enter
  \/ hankel_body
  \/ hankel_return
  \/ dmd_enter
  \/ dmd_design
  \/ dmd_svd
  \/ dmd_truncate
  \/ dmd_eig
  \/ dmd_lift
  \/ dmd_normalize
  \/ pinv_svd
  \/ pinv_return
  \/ solve_regression_svd
  \/ solve_regression_return

Spec == Init /\ [][Next]_vars

\* the loop of hankel run on its own, scheduled until it returns
NextHankel == hankel_enter \/ hankel_body \/ hankel_return
InitFair == Init /\ op = "hankel"
FairSpec == InitFair /\ [][NextHankel]_vars /\ WF_vars(NextHankel)

(* ------------------------------- claims -------------------------------- *)
\* hankel has returned t, to its caller or to dmd
HankelReturned ==
  \/ op = "hankel" /\ pc = "done" /\ outcome = "ok"
  \/ op = "dmd" /\ pc = "dmd_design"
ValidDepth == 1 <= K /\ K <= L

\* C1: for 1 <= K <= L the tensor hankel returns has H[b, w, k, :] equal to
\* T[b, w + k, :] for every trajectory b, window w in 0..L-K and offset k in
\* 0..K-1, the windows in increasing start order.
C1_HankelMapping ==
  (HankelReturned /\ ValidDepth) =>
    /\ t.shape = <<T.shape[1], L - K + 1, K, T.shape[3]>>
    /\ \A b \in 0 .. T.shape[1] - 1, w \in 0 .. L - K, k \in 0 .. K - 1,
          f \in 0 .. T.shape[3] - 1 :
         At(t, <<b, w, k, f>>) = At(T, <<b, w + k, f>>)

C1_Witness ==
  /\ op = "hankel" /\ pc = "done" /\ outcome = "ok"
  /\ T.shape = <<2, 3, 2>>
  /\ K = 2
  /\ At(T, <<1, 2, 1>>) = 11
  /\ At(t, <<1, 1, 1, 1>>) = 11

\* C2: for 1 <= K <= L the loop of hankel ends, after exactly L-K appends,
\* and the tensor returned holds exactly L-K+1 windows of length K each.
C2_LoopTerminates ==
  (pc = "hankel_enter" /\ ValidDepth) ~>
    (/\ pc = "done" /\ outcome = "ok"
     /\ i - 1 = L - K
     /\ t.shape[2] = L - K + 1
     /\ t.shape[3] = K)

C2_Witness ==
  /\ op = "hankel" /\ pc = "done" /\ outcome = "ok"
  /\ K = L
  /\ i = 1
  /\ t.shape[2] = 1

\* the design matrices of dmd have been built
DesignBuilt == op = "dmd" /\ X_resh # Empty
ValidMemory == 1 <= K /\ K <= n - 1
\* flat[b, time, q], the density matrix at a time step as a vector
Flat(b, time, q) == At(trajectories, <<b, time, q \div m, q % m>>)

\* C3: in dmd, for 1 <= K <= n-1, X[f, b*(n-K)+w] = flat[b, w + f div m^2,
\* f mod m^2] and Y[f, b*(n-K)+w] = flat[b, w + 1 + f div m^2, f mod m^2]:
\* column c of Y is the window one step later of the same trajectory.
C3_DesignMatrices ==
  (DesignBuilt /\ ValidMemory) =>
    /\ X_resh.shape = <<K * m * m, bs * (n - K)>>
    /\ Y_resh.shape = <<K * m * m, bs * (n - K)>>
    /\ \A f \in 0 .. K * m * m - 1, b \in 0 .. bs - 1, w \in 0 .. n - K - 1 :
         /\ At(X_resh, <<f, b * (n - K) + w>>)
              = Flat(b, w + (f \div (m * m)), f % (m * m))
         /\ At(Y_resh, <<f, b * (n - K) + w>>)
              = Flat(b, w + 1 + (f \div (m * m)), f % (m * m))

C3_Witness ==
  /\ DesignBuilt
  /\ bs = 2 /\ n = 3 /\ m = 2 /\ K = 1
  /\ At(Y_resh, <<3, 2>>) = At(trajectories, <<1, 1, 1, 1>>)
  /\ At(X_resh, <<3, 3>>) = At(trajectories, <<1, 1, 1, 1>>)

\* how many of the singular values exceed the tolerance
Exceeding(sv, tol) == {k \in 1 .. Len(sv) : QGreater(sv[k], tol)}
DmdReturned == op = "dmd" /\ pc = "done" /\ outcome = "ok"

Truncated ==
  \/ op = "dmd" /\ pc \in {"dmd_eig", "dmd_lift", "dmd_normalize"}
  \/ op = "pinv" /\ pc = "done"

\* C5: after the truncation step of dmd and pinv the retained singular
\* values are exactly those strictly greater than eps, u and v are cut to
\* that same number r of columns, and a larger eps never retains more.
C5_Truncation ==
  Truncated =>
    /\ lmbd = SelectSeq(s, LAMBDA x : QGreater(x, eps))
    /\ \A k \in 1 .. Len(s) : s[k] = eps => k > Len(lmbd)
    /\ u.shape[2] = Len(lmbd)
    /\ v.shape[2] = Len(lmbd)
    /\ ind = Len(lmbd)
    /\ \A e \in EpsSet : ~QGreater(eps, e) => Rank(s, e) <= ind

C5_Witness ==
  /\ Truncated
  /\ op = "pinv"
  /\ s = <<QInt(2), QInt(1)>>
  /\ eps = QInt(1)
  /\ lmbd = <<QInt(2)>>
  /\ u.shape = <<2, 1>>

\* the sum over the features of conj(l[f, j]) * r[f, j], mode j from 1
ModeDot(l, r, j) == ColDot(l, r, j - 1, l.shape[1])

\* C6: after the normalization step of dmd, for every mode j whose norm_j =
\* sqrt(sum_f conj(L[f,j]) * R[f,j]) is not zero, column j of R was divided
\* by norm_j and column j of L by conj(norm_j), and
\* sum_f conj(L[f,j]) * R[f,j] = 1.
C6_Normalized ==
  DmdReturned =>
    \A j \in 1 .. Len(norm) :
      norm[j] # CZero =>
        /\ CMul(norm[j], norm[j]) = ModeDot(lifted[2], lifted[1], j)
        /\ \A f \in 0 .. right.shape[1] - 1 :
             /\ At(right, <<f, j - 1>>) = CDiv(At(lifted[1], <<f, j - 1>>), norm[j])
             /\ At(left, <<f, j - 1>>)
                  = CDiv(At(lifted[2], <<f, j - 1>>), CConj(norm[j]))
        /\ ModeDot(left, right, j) = COne

C6_Witness ==
  /\ DmdReturned
  /\ Len(norm) >= 2
  /\ right.shape[1] >= 2
  /\ norm[1] = CInt(1, 1)
  /\ norm[2] # norm[1]
  /\ ModeDot(left, right, 1) = COne

\* C7: a call that violates a shape precondition, hankel(T, K) with K > L
\* or K < 1, dmd(trajectories, K, eps) with K < 1 or n <= K, ends in an
\* error, returns nothing and does no numeric work.
C7_FailsFast ==
  ((op = "hankel" /\ (K > L \/ K < 1)) \/ (op = "dmd" /\ (K < 1 \/ n <= K)))
    => /\ ~numeric
       /\ pc = "done" => outcome = "error"

\* C8: a dmd call in which sum_f conj(L[f,j]) * R[f,j] is zero for some mode
\* j ends in a numerical failure; it never returns eigenvectors divided by
\* the zero norm.
C8_ZeroNormFails ==
  DmdReturned =>
    \A j \in 1 .. Len(norm) : ModeDot(lifted[2], lifted[1], j) # CZero

PinvReturned == op = "pinv" /\ pc = "done"

C10_RegressionIsPinv ==
  (op = "solve_regression" /\ pc = "done") =>
    result = MatMul(Y_resh, pinv(s, u, v, RegTol))

====
